---- MODULE Spec2Model ----
(***************************************************************************)
(* Model of the GPSDataDisplay component (src/src/components/display.js):  *)
(* the trigger state, the coordinate list, the four remote calls and the   *)
(* polling interval that the [triggered] effect owns.                      *)
(*                                                                         *)
(* Every async handler is cut at its await of fetch(): one action issues   *)
(* the request, one action per outstanding request applies the response.   *)
(* The state updates a continuation makes are committed together with the  *)
(* [triggered] effect they cause (cleanup of the old effect, then the new  *)
(* effect), so one action is one handler continuation plus the commit.     *)
(***************************************************************************)
EXTENDS Integers, Sequences, FiniteSets, TLC

\* ------------------------------------------------------------- bounds
\* Outstanding GET data requests the model follows at once.
MaxData == 2
\* Outstanding POST start (and POST stop) requests the model follows at once.
MaxCmd == 2
\* Longest coordinates array a response carries.
MaxBatch == 1

\* ------------------------------------------------------------- values
Null == "null"

\* Location samples the backend may return, named by the order of their
\* timestamps.
Samples == {1, 2}

\* The coordinates arrays a response may carry: samples in timestamp order,
\* at most MaxBatch of them.
RECURSIVE SeqsUpTo(_)
SeqsUpTo(n) ==
    IF n = 0 THEN {<<>>}
    ELSE LET shorter == SeqsUpTo(n - 1)
         IN shorter \cup {Append(s, x) : s \in {t \in shorter : Len(t) = n - 1},
                                         x \in Samples}

Ascending(s) == \A i \in 1..(Len(s) - 1) : s[i] < s[i + 1]

Batches == {s \in SeqsUpTo(MaxBatch) : Ascending(s)}

\* What new Date() yields.
Now == "date"

FetchError == "Failed to fetch coordinates"
ServerReason == "reason given by the server"

\* A response body: not JSON at all (res.json() rejects), the JSON value
\* null, or a JSON object.
BodyKinds == {"invalid", "null", "object"}

\* Responses to GET /api/device/data/:id.  net = FALSE: fetch() itself rejects.
\* has: the body has a "coordinates" field.  Nothing reads the body of a 403.
DataResponses ==
    {[net |-> FALSE, status |-> 0, kind |-> "invalid", has |-> FALSE, coords |-> <<>>],
     [net |-> TRUE, status |-> 403, kind |-> "object", has |-> FALSE, coords |-> <<>>]}
    \cup {[net |-> TRUE, status |-> s, kind |-> k, has |-> FALSE, coords |-> <<>>] :
              s \in {200, 500}, k \in BodyKinds}
    \cup {[net |-> TRUE, status |-> s, kind |-> "object", has |-> TRUE, coords |-> b] :
              s \in {200, 500}, b \in Batches}

\* Responses to POST /api/device/trigger/start and /stop.  has: the body has
\* an "error" field.
CmdResponses ==
    {[net |-> FALSE, status |-> 0, kind |-> "invalid", has |-> FALSE]}
    \cup {[net |-> TRUE, status |-> s, kind |-> k, has |-> FALSE] :
              s \in {200, 400}, k \in BodyKinds}
    \cup {[net |-> TRUE, status |-> 400, kind |-> "object", has |-> TRUE]}

\* Responses to GET /api/device/status/:id.  trig: the body's "triggered"
\* field (true, false, or missing).
StatusResponses ==
    {[net |-> FALSE, status |-> 0, kind |-> "invalid", trig |-> "missing"]}
    \cup {[net |-> TRUE, status |-> s, kind |-> k, trig |-> "missing"] :
              s \in {200, 500}, k \in BodyKinds}
    \cup {[net |-> TRUE, status |-> 200, kind |-> "object", trig |-> t] :
              t \in {"true", "false"}}

\* Response.ok
ResOk(r) == r.status >= 200 /\ r.status <= 299

\* ------------------------------------------------------------- state
VARIABLES
    mounted,       \* the mount effects have run
    coordinates,   \* useState([])
    isLoading,     \* useState(true)
    error,         \* useState(null)
    lastUpdate,    \* useState(null)
    triggered,     \* useState(false)
    intervals,     \* number of setInterval timers not yet cleared
    dataCalls,     \* outstanding GET data requests, by tag
    startCalls,    \* outstanding POST start requests
    stopCalls,     \* outstanding POST stop requests
    statusCalls,   \* outstanding GET status requests
    statusIssued,  \* history: GET status requests issued so far
    everOn,        \* history: triggered has been true at some time
    trip,          \* history: progress of a start-then-stop round trip
    polled,        \* history: a getData success was applied since triggered last became true
    step           \* history: what the latest step was and did

vars == <<mounted, coordinates, isLoading, error, lastUpdate, triggered, intervals,
          dataCalls, startCalls, stopCalls, statusCalls, statusIssued, everOn, trip, polled, step>>

\* History tag of an outstanding GET data request: "stale" once a stopTrigger
\* success has been applied while it was outstanding.
Tags == {"live", "stale"}

Outstanding == dataCalls["live"] + dataCalls["stale"]

\* How the claims' vocabulary classifies a response: the transport failed, a
\* success status, the Forbidden status, any other status.
RespClass(r) ==
    IF ~r.net THEN "neterr"
    ELSE IF ResOk(r) THEN "success"
    ELSE IF r.status = 403 THEN "forbidden"
    ELSE "error"

\* The record of a step: the operation, the response's class and the path the
\* handler took on it, the getData calls the step issued, what it alerted, the
\* tag of the request it answered, the coordinates list a getData success
\* carried, and triggered as it was before the step.
Step(op, class, outcome, issued, alert, tag, batch) ==
    [op |-> op, class |-> class, outcome |-> outcome, issued |-> issued,
     alert |-> alert, tag |-> tag, batch |-> batch, was |-> triggered]

\* A step that answers no request.
Local(op, issued) == Step(op, "-", "-", issued, Null, "live", <<>>)

\* trip: "started" once a startTrigger success is applied, "stopped" once a
\* stopTrigger success is applied after that; a new Start click or an applied
\* status result ends the round trip ("none").
TripAfter(op, outcome) ==
    CASE op = "start" /\ outcome = "ok" -> "started"
      [] op = "stop" /\ outcome = "ok" /\ trip = "started" -> "stopped"
      [] op = "clickStart" -> "none"
      [] op = "status" /\ outcome # "failed" -> "none"
      [] OTHER -> trip

\* polled: true once a getData success is applied (also the one whose own
\* setTriggered(true) turns triggered on), false again when another step
\* turns triggered from false to true.
PolledAfter(op, outcome, new) ==
    IF op = "data" /\ outcome = "ok" THEN TRUE
    ELSE IF new /\ ~triggered THEN FALSE
    ELSE polled

Init ==
    /\ mounted = FALSE
    /\ coordinates = <<>>
    /\ isLoading = TRUE
    /\ error = Null
    /\ lastUpdate = Null
    /\ triggered = FALSE
    /\ intervals = 0
    /\ dataCalls = [t \in Tags |-> 0]
    /\ startCalls = 0
    /\ stopCalls = 0
    /\ statusCalls = 0
    /\ statusIssued = 0
    /\ everOn = FALSE
    /\ trip = "none"
    /\ polled = FALSE
    /\ step = Local("init", 0)

\* ------------------------------------------------- the [triggered] effect
\* useEffect(..., [triggered]) runs when a commit changes triggered: first the
\* cleanup the previous run returned (clearInterval), then the body.

\* fetchCoordinates() calls the effect body makes.
EffectFetches(old, new) == IF new /\ ~old THEN 1 ELSE 0

\* Variant: the effect returns no cleanup, so no timer is ever cleared.
EffectIntervalsNoCleanup(old, new, n) == IF new /\ ~old THEN n + 1 ELSE n

\* Variant: the effect body runs on every setTriggered(true), changed or not.
EffectIntervalsNoDeps(old, new, n) == IF new THEN n + 1 ELSE 0

\* Timers left after the cleanup and the effect body.
EffectIntervals(old, new, n) ==
    IF old = new THEN n
    ELSE IF new THEN n + 1
    ELSE n - 1

\* ------------------------------------------------------ fetchCoordinates
\* Which path of the try/catch a response takes.
DataOutcome(r) ==
    IF ~r.net THEN "failed"
    ELSE IF r.status = 403 THEN "forbidden"
    ELSE IF r.kind # "object" THEN "failed"
    ELSE "ok"

\* data.coordinates || []
DataCoords(r) == IF r.has THEN r.coords ELSE <<>>

\* Variant: the 403 path without setCoordinates([]).
fetchForbiddenKeepsList ==
    [triggered |-> FALSE, coordinates |-> coordinates, lastUpdate |-> lastUpdate,
     error |-> error]

fetchForbidden ==
    [triggered |-> FALSE, coordinates |-> <<>>, lastUpdate |-> lastUpdate, error |-> error]

\* Variant: a success appends the returned list to the one already held.
fetchSuccessMerges(r) ==
    [triggered |-> TRUE, coordinates |-> coordinates \o DataCoords(r), lastUpdate |-> Now,
     error |-> Null]

fetchSuccess(r) ==
    [triggered |-> TRUE, coordinates |-> DataCoords(r), lastUpdate |-> Now, error |-> Null]

\* Variant: the catch also gives up polling with setTriggered(false).
fetchFailedStopsPolling ==
    [triggered |-> FALSE, coordinates |-> coordinates, lastUpdate |-> lastUpdate,
     error |-> FetchError]

fetchFailed ==
    [triggered |-> triggered, coordinates |-> coordinates, lastUpdate |-> lastUpdate,
     error |-> FetchError]

fetchApplied(r) ==
    CASE DataOutcome(r) = "forbidden" -> fetchForbidden
      [] DataOutcome(r) = "ok" -> fetchSuccess(r)
      [] OTHER -> fetchFailed

\* Variant: no finally block, isLoading is never reset.
fetchFinallyMissing == isLoading

\* The finally block.
fetchFinally == FALSE

\* The continuation of fetchCoordinates after its await of fetch().
fetchCoordinatesResume(tag, r) ==
    /\ dataCalls[tag] > 0
    /\ LET new == fetchApplied(r)
           issued == EffectFetches(triggered, new.triggered)
       IN /\ triggered' = new.triggered
          /\ coordinates' = new.coordinates
          /\ lastUpdate' = new.lastUpdate
          /\ error' = new.error
          /\ isLoading' = fetchFinally
          /\ intervals' = EffectIntervals(triggered, new.triggered, intervals)
          /\ dataCalls' = [dataCalls EXCEPT ![tag] = @ - 1, !["live"] = @ + issued]
          /\ everOn' = (everOn \/ new.triggered)
          /\ polled' = PolledAfter("data", DataOutcome(r), new.triggered)
          /\ step' = Step("data", RespClass(r), DataOutcome(r), issued, Null, tag,
                          IF DataOutcome(r) = "ok" THEN r.coords ELSE <<>>)
    /\ trip' = TripAfter("data", DataOutcome(r))
    /\ UNCHANGED <<mounted, startCalls, stopCalls, statusCalls, statusIssued>>

\* One firing of a setInterval(fetchCoordinates, 5000) timer: the call up to
\* its await.
IntervalTick ==
    /\ intervals > 0
    /\ Outstanding < MaxData
    /\ dataCalls' = [dataCalls EXCEPT !["live"] = @ + 1]
    /\ step' = Local("tick", 1)
    /\ UNCHANGED <<mounted, coordinates, isLoading, error, lastUpdate, triggered,
                   intervals, startCalls, stopCalls, statusCalls, statusIssued,
                   everOn, trip, polled>>

\* ---------------------------------------------------------- startTrigger
StartOutcome(r) ==
    IF ~r.net \/ r.kind = "invalid" THEN "failed"
    ELSE IF ResOk(r) THEN "ok"
    ELSE IF r.kind = "null" THEN "failed"
    ELSE "rejected"

StartAlert(r) ==
    CASE StartOutcome(r) = "ok" -> Null
      [] StartOutcome(r) = "rejected" ->
            IF r.has THEN ServerReason ELSE "Failed to trigger device"
      [] OTHER -> "Error triggering device"

\* Variant: setTriggered(true) without the res.ok test.
StartTriggeredNoOkCheck(r) == IF StartOutcome(r) = "failed" THEN triggered ELSE TRUE

\* setTriggered(true) on res.ok
StartTriggered(r) == IF StartOutcome(r) = "ok" THEN TRUE ELSE triggered

\* fetchCoordinates() calls startTrigger makes itself.
StartFetches(r) == IF StartOutcome(r) = "ok" THEN 1 ELSE 0

\* The Start Trigger button: startTrigger up to its await of fetch().
startTrigger ==
    /\ mounted
    /\ ~triggered
    /\ startCalls < MaxCmd
    /\ startCalls' = startCalls + 1
    /\ step' = Local("clickStart", 0)
    /\ trip' = TripAfter("clickStart", "-")
    /\ UNCHANGED <<mounted, coordinates, isLoading, error, lastUpdate, triggered,
                   intervals, dataCalls, stopCalls, statusCalls, statusIssued, everOn,
                   polled>>

startTriggerResume(r) ==
    /\ startCalls > 0
    /\ LET new == StartTriggered(r)
           issued == EffectFetches(triggered, new) + StartFetches(r)
       IN /\ Outstanding + issued <= MaxData
          /\ triggered' = new
          /\ intervals' = EffectIntervals(triggered, new, intervals)
          /\ dataCalls' = [dataCalls EXCEPT !["live"] = @ + issued]
          /\ everOn' = (everOn \/ new)
          /\ polled' = PolledAfter("start", StartOutcome(r), new)
          /\ step' = Step("start", RespClass(r), StartOutcome(r), issued, StartAlert(r),
                          "live", <<>>)
    /\ trip' = TripAfter("start", StartOutcome(r))
    /\ startCalls' = startCalls - 1
    /\ UNCHANGED <<mounted, coordinates, isLoading, error, lastUpdate, stopCalls,
                   statusCalls, statusIssued>>

\* ----------------------------------------------------------- stopTrigger
StopOutcome(r) ==
    IF ~r.net THEN "failed"
    ELSE IF ResOk(r) THEN "ok"
    ELSE IF r.kind # "object" THEN "failed"
    ELSE "rejected"

StopAlert(r) ==
    CASE StopOutcome(r) = "ok" -> Null
      [] StopOutcome(r) = "rejected" ->
            IF r.has THEN ServerReason ELSE "Failed to stop trigger"
      [] OTHER -> "Error stopping trigger"

stopSuccess ==
    [triggered |-> FALSE, coordinates |-> <<>>, lastUpdate |-> Null]

\* Variant: a failed stop still clears the list.
stopUnchangedClearsList ==
    [triggered |-> triggered, coordinates |-> <<>>, lastUpdate |-> lastUpdate]

stopUnchanged ==
    [triggered |-> triggered, coordinates |-> coordinates, lastUpdate |-> lastUpdate]

stopApplied(r) == IF StopOutcome(r) = "ok" THEN stopSuccess ELSE stopUnchanged

\* The Stop Trigger button: stopTrigger up to its await of fetch().
stopTrigger ==
    /\ mounted
    /\ triggered
    /\ stopCalls < MaxCmd
    /\ stopCalls' = stopCalls + 1
    /\ step' = Local("clickStop", 0)
    /\ UNCHANGED <<mounted, coordinates, isLoading, error, lastUpdate, triggered,
                   intervals, dataCalls, startCalls, statusCalls, statusIssued,
                   everOn, trip, polled>>

stopTriggerResume(r) ==
    /\ stopCalls > 0
    /\ LET new == stopApplied(r)
       IN /\ triggered' = new.triggered
          /\ coordinates' = new.coordinates
          /\ lastUpdate' = new.lastUpdate
          /\ intervals' = EffectIntervals(triggered, new.triggered, intervals)
          /\ dataCalls' = IF StopOutcome(r) = "ok"
                             THEN [t \in Tags |-> IF t = "stale" THEN Outstanding ELSE 0]
                             ELSE dataCalls
          /\ step' = Step("stop", RespClass(r), StopOutcome(r), 0, StopAlert(r),
                          "live", <<>>)
    /\ trip' = TripAfter("stop", StopOutcome(r))
    /\ stopCalls' = stopCalls - 1
    /\ UNCHANGED <<mounted, isLoading, error, startCalls, statusCalls, statusIssued,
                   everOn, polled>>

\* ---------------------------------------------------- checkTriggerStatus
StatusOutcome(r) ==
    IF ~r.net \/ r.kind # "object" THEN "failed"
    ELSE IF r.trig = "true" THEN "true"
    ELSE "false"

\* Variant: setTriggered(data.triggered !== false), a missing field read as true.
StatusTriggeredMissingAsTrue(r) ==
    IF StatusOutcome(r) = "failed" THEN triggered ELSE r.trig # "false"

\* setTriggered(data.triggered || false)
StatusTriggered(r) ==
    IF StatusOutcome(r) = "failed" THEN triggered ELSE StatusOutcome(r) = "true"

\* The two effects' first run, after the first render: checkTriggerStatus()
\* up to its await, and the [triggered] effect with triggered = false.
Mount ==
    /\ ~mounted
    /\ mounted' = TRUE
    /\ statusCalls' = statusCalls + 1
    /\ statusIssued' = statusIssued + 1
    /\ intervals' = EffectIntervals(FALSE, triggered, intervals)
    /\ dataCalls' = [dataCalls EXCEPT !["live"] = @ + EffectFetches(FALSE, triggered)]
    /\ step' = Local("mount", EffectFetches(FALSE, triggered))
    /\ UNCHANGED <<coordinates, isLoading, error, lastUpdate, triggered, startCalls,
                   stopCalls, everOn, trip, polled>>

\* Retries of the status call after a failure (the catch only logs).
StatusRetries(r) == 0

checkTriggerStatusResume(r) ==
    /\ statusCalls > 0
    /\ LET new == StatusTriggered(r)
           issued == EffectFetches(triggered, new)
       IN /\ Outstanding + issued <= MaxData
          /\ triggered' = new
          /\ intervals' = EffectIntervals(triggered, new, intervals)
          /\ dataCalls' = [dataCalls EXCEPT !["live"] = @ + issued]
          /\ everOn' = (everOn \/ new)
          /\ polled' = PolledAfter("status", StatusOutcome(r), new)
          /\ step' = Step("status", RespClass(r), StatusOutcome(r), issued, Null,
                          "live", <<>>)
    /\ trip' = TripAfter("status", StatusOutcome(r))
    /\ statusCalls' = statusCalls - 1 + StatusRetries(r)
    /\ statusIssued' = statusIssued + StatusRetries(r)
    /\ UNCHANGED <<mounted, coordinates, isLoading, error, lastUpdate, startCalls,
                   stopCalls>>

\* ---------------------------------------------------------- specification
Next ==
    \/ Mount
    \/ startTrigger
    \/ stopTrigger
    \/ IntervalTick
    \/ \E r \in CmdResponses : startTriggerResume(r)
    \/ \E r \in CmdResponses : stopTriggerResume(r)
    \/ \E r \in StatusResponses : checkTriggerStatusResume(r)
    \/ \E t \in Tags, r \in DataResponses : fetchCoordinatesResume(t, r)

Spec == Init /\ [][Next]_vars

\* The interval timer keeps firing while it is set, and every fetch() of
\* fetchCoordinates settles (a response, or a transport failure).
FairSpec ==
    /\ Spec
    /\ WF_vars(IntervalTick)
    /\ WF_vars(\E t \in Tags, r \in DataResponses : fetchCoordinatesResume(t, r))

TypeOK ==
    /\ mounted \in BOOLEAN
    /\ coordinates \in Batches
    /\ isLoading \in BOOLEAN
    /\ error \in {Null, FetchError}
    /\ lastUpdate \in {Null, Now}
    /\ triggered \in BOOLEAN
    /\ intervals \in 0..1
    /\ dataCalls \in [Tags -> 0..MaxData]
    /\ Outstanding <= MaxData
    /\ startCalls \in 0..MaxCmd
    /\ stopCalls \in 0..MaxCmd
    /\ statusCalls \in 0..1
    /\ statusIssued \in 0..1
    /\ everOn \in BOOLEAN
    /\ trip \in {"none", "started", "stopped"}
    /\ polled \in BOOLEAN

\* ------------------------------------------------------------------ claims

\* C1: in every reachable state a recurring poll timer is active if and only
\* if triggered is true; so every step that sets triggered to false (a stop
\* success, a 403 from getData) leaves no timer.
C1_TimerIffOn == (intervals >= 1) <=> triggered

\* A 403 from getData has just turned triggered off and the timer is gone.
C1_Witness ==
    /\ step.op = "data" /\ step.outcome = "forbidden" /\ step.was
    /\ ~triggered /\ intervals = 0

\* C2 (as claimed): a getData call that was outstanding when a stopTrigger
\* success was applied, and that then resolves successfully while triggered is
\* false and the list is empty, leaves triggered false and the list empty.
C2_StaleDiscard ==
    [][(/\ step'.op = "data" /\ step'.tag = "stale" /\ step'.outcome = "ok"
        /\ ~triggered /\ coordinates = <<>>)
       => (~triggered' /\ coordinates' = <<>>)]_vars

\* C3: there is never more than one active recurring poll timer, also after
\* two startTrigger successes in a row.
C3_AtMostOneTimer == intervals <= 1

\* A second startTrigger success has been applied while triggered was already
\* true, and one timer is active.
C3_Witness ==
    /\ step.op = "start" /\ step.outcome = "ok" /\ step.was
    /\ triggered /\ intervals = 1

\* C4 (as claimed): a getData call that ends in a transport failure or in a
\* non-success status other than 403 leaves triggered and the list unchanged
\* and records the error.
C4_CommunicationError ==
    [][(step'.op = "data" /\ step'.class \in {"neterr", "error"})
       => (/\ triggered' = triggered
           /\ coordinates' = coordinates
           /\ error' = FetchError)]_vars

\* C5: a getData call that returns 403 while triggered is true sets triggered
\* to false, empties the list, clears the timer and leaves error as it was.
C5_ForbiddenWhileOn ==
    [][(step'.op = "data" /\ step'.class = "forbidden" /\ triggered)
       => (/\ ~triggered'
           /\ coordinates' = <<>>
           /\ intervals' = 0
           /\ error' = error)]_vars

\* A 403 has turned triggered off while an earlier fetch error is still shown.
C5_Witness ==
    /\ step.op = "data" /\ step.class = "forbidden" /\ step.was
    /\ ~triggered /\ coordinates = <<>> /\ intervals = 0 /\ error = FetchError

\* C6 (as claimed): every step that takes triggered from true to false by a
\* stopTrigger success or a getData response clears both the list and
\* lastUpdate.
C6_OffClearsAll ==
    [][(triggered /\ ~triggered' /\ step'.op \in {"stop", "data"})
       => (coordinates' = <<>> /\ lastUpdate' = Null)]_vars

\* C7: a startTrigger call that fails while triggered is false leaves
\* triggered false, starts no timer, issues no getData call, changes no other
\* state, and alerts the user.
C7_StartFailure ==
    [][(step'.op = "start" /\ step'.outcome \in {"failed", "rejected"} /\ ~triggered)
       => (/\ ~triggered'
           /\ intervals' = intervals
           /\ dataCalls' = dataCalls /\ step'.issued = 0
           /\ coordinates' = coordinates
           /\ lastUpdate' = lastUpdate
           /\ error' = error
           /\ isLoading' = isLoading
           /\ step'.alert # Null)]_vars

\* The server has rejected a start while triggered was false: its reason is
\* alerted, triggered is false and no timer runs.
C7_Witness ==
    /\ step.op = "start" /\ step.outcome = "rejected" /\ ~step.was
    /\ step.alert = ServerReason /\ ~triggered /\ intervals = 0

\* C8: a stopTrigger call that fails leaves triggered, the list, lastUpdate
\* and the timer unchanged, and alerts the user.
C8_StopFailure ==
    [][(step'.op = "stop" /\ step'.outcome \in {"failed", "rejected"})
       => (/\ triggered' = triggered
           /\ coordinates' = coordinates
           /\ lastUpdate' = lastUpdate
           /\ intervals' = intervals
           /\ step'.alert # Null)]_vars

\* The server has rejected a stop while samples were shown: the samples, the
\* update time and the timer are still there.
C8_Witness ==
    /\ step.op = "stop" /\ step.outcome = "rejected" /\ step.alert # Null
    /\ triggered /\ coordinates # <<>> /\ lastUpdate = Now /\ intervals = 1

\* C9 (as claimed): once a startTrigger success has been followed by a
\* stopTrigger success, and until the next Start click or status result,
\* triggered is false and the list is empty, whenever the getData calls issued
\* in between resolve.
C9_RoundTrip == (trip = "stopped") => (~triggered /\ coordinates = <<>>)

\* C10: the status call is issued exactly once; a status result is adopted as
\* triggered; true (from false) issues one getData call and leaves one timer,
\* false leaves no timer and, at startup (triggered never yet true), an empty
\* list.
C10_Reconciliation ==
    /\ [](statusIssued = (IF mounted THEN 1 ELSE 0))
    /\ [][(step'.op = "status" /\ step'.outcome = "true")
          => (/\ triggered'
              /\ intervals' = 1
              /\ (~triggered => step'.issued = 1))]_vars
    /\ [][(step'.op = "status" /\ step'.outcome = "false")
          => (/\ ~triggered'
              /\ intervals' = 0
              /\ (~everOn => coordinates' = <<>>))]_vars

\* The status call has reported true at startup: triggered is true, one
\* getData call was issued and one timer runs.
C10_Witness ==
    /\ step.op = "status" /\ step.outcome = "true" /\ ~step.was
    /\ statusIssued = 1 /\ triggered /\ step.issued = 1 /\ intervals = 1

\* C11 (as claimed): a status call that fails leaves triggered as it was,
\* records the error in the error state, starts no timer and is not retried.
C11_StatusFailure ==
    [][(step'.op = "status" /\ step'.outcome = "failed")
       => (/\ triggered' = triggered
           /\ intervals' = intervals
           /\ statusCalls' = 0
           /\ error' # Null)]_vars

\* C12 (as claimed): every step that takes triggered from false to true
\* issues exactly one getData call and leaves one timer.
C12_OneFetchOnEntry ==
    [][(~triggered /\ triggered') => (step'.issued = 1 /\ intervals' = 1)]_vars

\* C13 (as claimed): a poll tick is issued only when no getData call is
\* outstanding, so at most one is outstanding after it.
C13_NoOverlappingTicks ==
    [][(step'.op = "tick") => (Outstanding' <= 1)]_vars

\* C14: right after a getData success is applied, the list is exactly the
\* list that response carried, whatever the list held before.
C14_Replaced ==
    [][(step'.op = "data" /\ step'.class = "success" /\ step'.outcome = "ok")
       => (coordinates' = step'.batch)]_vars

\* A getData success carrying a sample has been applied and the list is that
\* response's list.
C14_Witness ==
    /\ step.op = "data" /\ step.class = "success" /\ step.outcome = "ok"
    /\ step.batch # <<>> /\ coordinates = step.batch

\* C15 (as claimed): the list is non-empty only if a getData success has been
\* applied since triggered last became true.
C15_SamplesArePolled == (coordinates # <<>>) => polled

\* C16 (as claimed): applying a startTrigger success sets triggered and clears
\* error in that same step.
C16_StartClearsError ==
    [][(step'.op = "start" /\ step'.outcome = "ok")
       => (triggered' /\ error' = Null)]_vars

\* C17 (as claimed): applying a getData success leaves triggered as it was.
C17_SuccessKeepsTrigger ==
    [][(step'.op = "data" /\ step'.class = "success" /\ step'.outcome = "ok")
       => (triggered' = triggered)]_vars

\* C18 (as claimed): a status result of false that arrives after triggered
\* has become true (it was false when the call was issued) changes neither
\* triggered nor the timer.
C18_StaleStatusDiscarded ==
    [][(step'.op = "status" /\ step'.outcome = "false" /\ triggered)
       => (triggered' /\ intervals' = intervals)]_vars

\* C19: a getData call that ends in a transport failure or a non-success
\* status other than 403 while triggered is true leaves triggered true and
\* the timer set; and if triggered stays true from some point on, poll ticks
\* are issued again and again.
C19_PollingPersists ==
    /\ [][(step'.op = "data" /\ step'.class \in {"neterr", "error"} /\ triggered)
          => (triggered' /\ intervals' = intervals)]_vars
    /\ (<>[]triggered => []<>(step.op = "tick"))

\* A poll tick has been issued while the error of a failed getData call is
\* shown.
C19_Witness ==
    /\ step.op = "tick" /\ error = FetchError /\ triggered /\ intervals = 1

\* C20: isLoading starts true, becomes false in the step that applies a
\* getData response (whatever its outcome) and in no other step, never
\* becomes true again, and is true from the start for as long as triggered
\* has never been true.
C20_LoadingFlag ==
    /\ [][(step'.op = "data") => ~isLoading']_vars
    /\ [][(step'.op # "data") => (isLoading' = isLoading)]_vars
    /\ [][~isLoading => ~isLoading']_vars
    /\ [](~everOn => isLoading)

\* The first getData call has failed and the loading flag is down.
C20_Witness ==
    /\ step.op = "data" /\ step.outcome = "failed" /\ ~isLoading

====
